---- MODULE Spec2Model ----
(***************************************************************************)
(* TruthLens: the claim-verification-and-scoring pipeline behind           *)
(* POST /api/v1/analyze.                                                   *)
(*                                                                         *)
(*   Claims[] -> FeasibilityEngine -> Verifications[]                      *)
(*   ProductData -> PricingEngine -> PriceAnalysis                         *)
(*   (Verifications[], PriceAnalysis) -> ScoringEngine -> AnalysisResult   *)
(*                                                                         *)
(* Number representation (TLC has integers only):                          *)
(*   - a claim's numeric value is held in hundredths of its unit           *)
(*     (14.99 minutes = 1499), see Scaled;                                 *)
(*   - a confidence is held in percent (0.95 = 95);                        *)
(*   - ProductData.price is held in cents; the money fields of a           *)
(*     PriceAnalysis are held in twentieths of a cent, so that 0.8 x,      *)
(*     brand_premium x and the midpoint of the fair range are exact;       *)
(*   - a score or a percentage is an exact fraction [num, den], den > 0,   *)
(*     compared by cross-multiplication (no rounding is modelled);         *)
(*   - an optional value (Python None) is a sequence of length 0 or 1.     *)
(***************************************************************************)
EXTENDS Integers, Sequences, FiniteSets

VARIABLES phase, claims, product, verifications, price_analysis, result, runs,
          analysis, loading, error, calls, started, inputType, formText, url, view

\* One analysis run at a time: the state of the pipeline.
pipelineVars == <<phase, claims, product, verifications, price_analysis, result>>

\* App's state (analysis, loading, error), the handleAnalyze calls made so
\* far, InputForm's state (inputType, text as formText, url) and what is on
\* the screen.
formVars == <<inputType, formText, url>>

appVars == <<analysis, loading, error, calls, started, inputType, formText, url, view>>

vars == <<phase, claims, product, verifications, price_analysis, result, runs,
          analysis, loading, error, calls, started, inputType, formText, url, view>>

\* ------------------------------------------------------------------ values

None == <<>>

Some(x) == <<x>>

\* A claim value v (in its unit) in hundredths of the unit.
Scaled(v) == v * 100

\* Exact fractions.
Rat(n, d) == [num |-> n, den |-> d]

RLt(a, b) == a.num * b.den < b.num * a.den

RLe(a, b) == a.num * b.den <= b.num * a.den

REq(a, b) == a.num * b.den = b.num * a.den

Whole(n) == Rat(n, 1)

\* ------------------------------------------------------------ data model

Feasible == "feasible"

Exaggerated == "exaggerated"

Impossible == "impossible"

VerificationStatus == {Feasible, Exaggerated, Impossible}

Claim(text, category, value, unit) ==
    [text |-> text, category |-> category, value |-> value, unit |-> unit]

Verification(claim, status, confidence) ==
    [claim |-> claim.text, status |-> status, confidence |-> confidence]

\* ------------------------------------------------------ FeasibilityEngine
\*
\* The tier boundaries are those of the rule tables.  The worked examples fix
\* these confidences: 20000 mAh and 5000 mAh feasible 90 %, 2 minutes
\* impossible 95 %, 150 W exaggerated 85 %, 18 W feasible 90 %, 90 minutes
\* feasible 95 %, 100 % efficiency impossible 100 %, buzzwords 75-90 %.  The
\* confidences of the remaining branches are not documented; they are set
\* inside the documented ranges (exaggerated 75-90 %, fallback 50 %), and no
\* property checked below depends on their exact value.

\* A claim the rule tables cannot classify: tier exaggerated, confidence 0.5.
verify_fallback(claim) == Verification(claim, Exaggerated, 50)

\* Battery capacity below the typical range (under 1,000 mAh).
verify_battery_below_typical(claim) == Verification(claim, Exaggerated, 60)

\* Mutation: the 50,000 mAh boundary belongs to the exaggerated tier.
verify_battery_capacity_closed_at_50000(claim) ==
    LET capacity == claim.value[1]
    IN  IF capacity > Scaled(100000) THEN Verification(claim, Impossible, 95)
        ELSE IF capacity >= Scaled(50000) THEN Verification(claim, Exaggerated, 80)
        ELSE IF capacity >= Scaled(1000) THEN Verification(claim, Feasible, 90)
        ELSE verify_battery_below_typical(claim)

\* Mutation: the 100,000 mAh boundary belongs to the impossible tier.
verify_battery_capacity_closed_at_100000(claim) ==
    LET capacity == claim.value[1]
    IN  IF capacity >= Scaled(100000) THEN Verification(claim, Impossible, 95)
        ELSE IF capacity > Scaled(50000) THEN Verification(claim, Exaggerated, 80)
        ELSE IF capacity >= Scaled(1000) THEN Verification(claim, Feasible, 90)
        ELSE verify_battery_below_typical(claim)

verify_battery_capacity(claim) ==
    LET capacity == claim.value[1]
    IN  IF capacity > Scaled(100000) THEN Verification(claim, Impossible, 95)
        ELSE IF capacity > Scaled(50000) THEN Verification(claim, Exaggerated, 80)
        ELSE IF capacity >= Scaled(1000) THEN Verification(claim, Feasible, 90)
        ELSE verify_battery_below_typical(claim)

\* A charging time in minutes (hundredths); the extractor gives minutes or hours.
minutes_of(claim) == IF claim.unit = Some("hours") THEN 60 * claim.value[1] ELSE claim.value[1]

\* Mutation: the 15-minute test comes first, so the 5-minute test never decides.
verify_charging_time_misordered(claim) ==
    LET time == minutes_of(claim)
    IN  IF time < Scaled(15) THEN Verification(claim, Exaggerated, 80)
        ELSE IF time < Scaled(5) THEN Verification(claim, Impossible, 95)
        ELSE IF time < Scaled(30) THEN Verification(claim, Feasible, 85)
        ELSE Verification(claim, Feasible, 95)

\* Mutation: the 15-minute boundary belongs to the exaggerated tier.
verify_charging_time_closed_at_15(claim) ==
    LET time == minutes_of(claim)
    IN  IF time < Scaled(5) THEN Verification(claim, Impossible, 95)
        ELSE IF time <= Scaled(15) THEN Verification(claim, Exaggerated, 80)
        ELSE IF time < Scaled(30) THEN Verification(claim, Feasible, 85)
        ELSE Verification(claim, Feasible, 95)

verify_charging_time(claim) ==
    LET time == minutes_of(claim)
    IN  IF time < Scaled(5) THEN Verification(claim, Impossible, 95)
        ELSE IF time < Scaled(15) THEN Verification(claim, Exaggerated, 80)
        ELSE IF time < Scaled(30) THEN Verification(claim, Feasible, 85)
        ELSE Verification(claim, Feasible, 95)

\* Mutation: the 150 W boundary belongs to the impossible tier.
verify_power_output_closed_at_150(claim) ==
    LET power == claim.value[1]
    IN  IF power >= Scaled(150) THEN Verification(claim, Impossible, 95)
        ELSE IF power > Scaled(100) THEN Verification(claim, Exaggerated, 85)
        ELSE IF power > Scaled(18) THEN Verification(claim, Feasible, 85)
        ELSE Verification(claim, Feasible, 90)

verify_power_output(claim) ==
    LET power == claim.value[1]
    IN  IF power > Scaled(150) THEN Verification(claim, Impossible, 95)
        ELSE IF power > Scaled(100) THEN Verification(claim, Exaggerated, 85)
        ELSE IF power > Scaled(18) THEN Verification(claim, Feasible, 85)
        ELSE Verification(claim, Feasible, 90)

\* Efficiency below the typical range (under 70 %).
verify_efficiency_below_typical(claim) == Verification(claim, Exaggerated, 60)

\* Mutation: the confidence of the hard limit is written as 100 on the 0-1 scale.
verify_efficiency_percent_scale(claim) ==
    LET efficiency == claim.value[1]
    IN  IF efficiency >= Scaled(100) THEN Verification(claim, Impossible, 100 * 100)
        ELSE IF efficiency > Scaled(98) THEN Verification(claim, Impossible, 95)
        ELSE IF efficiency > Scaled(95) THEN Verification(claim, Exaggerated, 80)
        ELSE IF efficiency >= Scaled(70) THEN Verification(claim, Feasible, 90)
        ELSE verify_efficiency_below_typical(claim)

\* Mutation: the 98 % boundary belongs to the impossible tier.
verify_efficiency_closed_at_98(claim) ==
    LET efficiency == claim.value[1]
    IN  IF efficiency >= Scaled(100) THEN Verification(claim, Impossible, 100)
        ELSE IF efficiency >= Scaled(98) THEN Verification(claim, Impossible, 95)
        ELSE IF efficiency > Scaled(95) THEN Verification(claim, Exaggerated, 80)
        ELSE IF efficiency >= Scaled(70) THEN Verification(claim, Feasible, 90)
        ELSE verify_efficiency_below_typical(claim)

\* Mutation: the 95 % boundary belongs to the exaggerated tier.
verify_efficiency_closed_at_95(claim) ==
    LET efficiency == claim.value[1]
    IN  IF efficiency >= Scaled(100) THEN Verification(claim, Impossible, 100)
        ELSE IF efficiency > Scaled(98) THEN Verification(claim, Impossible, 95)
        ELSE IF efficiency >= Scaled(95) THEN Verification(claim, Exaggerated, 80)
        ELSE IF efficiency >= Scaled(70) THEN Verification(claim, Feasible, 90)
        ELSE verify_efficiency_below_typical(claim)

verify_efficiency(claim) ==
    LET efficiency == claim.value[1]
    IN  IF efficiency >= Scaled(100) THEN Verification(claim, Impossible, 100)
        ELSE IF efficiency > Scaled(98) THEN Verification(claim, Impossible, 95)
        ELSE IF efficiency > Scaled(95) THEN Verification(claim, Exaggerated, 80)
        ELSE IF efficiency >= Scaled(70) THEN Verification(claim, Feasible, 90)
        ELSE verify_efficiency_below_typical(claim)

\* Confidence of a buzzword verification, inside the 75-90 % band.
buzzword_confidence(text) == IF text = "Quantum" THEN 90 ELSE 75

\* Mutation: a buzzword is treated like a claim no rule table classifies.
verify_marketing_buzzword_as_fallback(claim) == verify_fallback(claim)

verify_marketing_buzzword(claim) ==
    Verification(claim, Exaggerated, buzzword_confidence(claim.text))

\* Comparative texts that name a verifiable baseline.
named_baseline(text) == text = "2x faster than the 2020 model"

\* A comparative is exaggerated; a named baseline only lowers the confidence.
verify_comparative(claim) ==
    Verification(claim, Exaggerated, IF named_baseline(claim.text) THEN 60 ELSE 80)

\* The categories that need a numeric value to be classified.
NumericCategories == {"battery_capacity", "charging_time", "power_output", "efficiency"}

\* The units each numeric category is stated in.
recognized_units(category) ==
    IF category = "battery_capacity" THEN {"mAh"}
    ELSE IF category = "charging_time" THEN {"minutes", "hours"}
    ELSE IF category = "power_output" THEN {"W"}
    ELSE {"%"}

\* A claim of a numeric category whose value or unit the engine cannot use.
malformed(claim) ==
    /\ claim.category \in NumericCategories
    /\ \/ claim.value = None
       \/ claim.unit = None
       \/ claim.unit # None /\ claim.unit[1] \notin recognized_units(claim.category)

\* Mutation: the unit of a numeric claim is never looked at.
verify_claim_unit_blind(claim) ==
    IF claim.category \in NumericCategories /\ claim.value = None THEN verify_fallback(claim)
    ELSE IF claim.category = "battery_capacity" THEN verify_battery_capacity(claim)
    ELSE IF claim.category = "charging_time" THEN verify_charging_time(claim)
    ELSE IF claim.category = "power_output" THEN verify_power_output(claim)
    ELSE IF claim.category = "efficiency" THEN verify_efficiency(claim)
    ELSE IF claim.category = "marketing_buzzword" THEN verify_marketing_buzzword(claim)
    ELSE IF claim.category = "comparative" THEN verify_comparative(claim)
    ELSE verify_fallback(claim)

\* FeasibilityEngine: one Verification for one Claim.
verify_claim(claim) ==
    IF malformed(claim) THEN verify_fallback(claim)
    ELSE IF claim.category = "battery_capacity" THEN verify_battery_capacity(claim)
    ELSE IF claim.category = "charging_time" THEN verify_charging_time(claim)
    ELSE IF claim.category = "power_output" THEN verify_power_output(claim)
    ELSE IF claim.category = "efficiency" THEN verify_efficiency(claim)
    ELSE IF claim.category = "marketing_buzzword" THEN verify_marketing_buzzword(claim)
    ELSE IF claim.category = "comparative" THEN verify_comparative(claim)
    ELSE verify_fallback(claim)

\* The categories some rule table classifies.
SupportedCategories == NumericCategories \cup {"marketing_buzzword", "comparative"}

classifiable(claim) == claim.category \in SupportedCategories

\* Mutation: claims no rule table classifies are skipped.
verify_claims_skipping(cs) ==
    LET kept == SelectSeq(cs, classifiable)
    IN  [i \in 1..Len(kept) |-> verify_claim(kept[i])]

\* Step 3 of the pipeline: every claim is verified, in extraction order.
verify_claims(cs) == [i \in 1..Len(cs) |-> verify_claim(cs[i])]

\* ---------------------------------------------------------- PricingEngine
\*
\* The verdict rule is the documented one (listed price against the fair
\* range, then the overpricing percentage); the split between overpriced and
\* highly_overpriced at 50 % is the one of the verdict table.  The market
\* average is the midpoint of the fair range, as in both worked examples.

ExcellentValue == "excellent_value"

Fair == "fair"

SlightlyOverpriced == "slightly_overpriced"

Overpriced == "overpriced"

HighlyOverpriced == "highly_overpriced"

PriceVerdicts == {ExcellentValue, Fair, SlightlyOverpriced, Overpriced, HighlyOverpriced}

\* Per-category benchmarks: money in cents, brand_premium in tenths (1.3 = 13).
category_benchmarks ==
    [power_bank |-> [base_price |-> 1000, price_per_mah |-> 2, price_per_watt |-> 50,
                     brand_premium |-> 13]]

\* The benchmark of a category no table names: a base price, the default
\* brand premium 1.3 and no priced spec field.
generic_benchmark ==
    [base_price |-> 2000, price_per_mah |-> 0, price_per_watt |-> 0, brand_premium |-> 13]

benchmark_for(category) ==
    IF category \in DOMAIN category_benchmarks
        THEN category_benchmarks[category]
        ELSE generic_benchmark

\* A spec field of the product, 0 when the listing does not give it.
spec_value(specs, field) == IF field \in DOMAIN specs THEN specs[field] ELSE 0

\* Mutation: the power output is left out of the spec value.
fair_price_without_power(specs, benchmark) ==
    benchmark.base_price + spec_value(specs, "battery") * benchmark.price_per_mah

\* fair_price in cents.
fair_price(specs, benchmark) ==
    benchmark.base_price
        + spec_value(specs, "battery") * benchmark.price_per_mah
        + spec_value(specs, "power") * benchmark.price_per_watt

\* fair_range = (fair_price x 0.8, fair_price x brand_premium), in twentieths of a cent.
fair_range(fp, benchmark) ==
    [min |-> 16 * fp, max |-> 2 * benchmark.brand_premium * fp]

\* The market average is the midpoint of the fair range.
market_average_of(range) == (range.min + range.max) \div 2

\* A cent amount in twentieths of a cent.
Money(cents) == 20 * cents

\* overpricing_percentage = (listed_price - market_average) / market_average x 100
overpricing_of(listed, market_average) ==
    Rat(100 * (listed - market_average), market_average)

\* Above the fair range and more than 25 % over the market average.
overpriced_band(overpricing) ==
    IF RLe(overpricing, Whole(50)) THEN Overpriced ELSE HighlyOverpriced

\* Mutation: the two upper comparisons are strict.
determine_price_verdict_strict(listed, range, overpricing) ==
    IF listed < range.min THEN ExcellentValue
    ELSE IF listed < range.max THEN Fair
    ELSE IF RLt(overpricing, Whole(25)) THEN SlightlyOverpriced
    ELSE overpriced_band(overpricing)

\* Mutation: exactly 25 % above the market average is already overpriced.
determine_price_verdict_from_25(listed, range, overpricing) ==
    IF listed < range.min THEN ExcellentValue
    ELSE IF listed <= range.max THEN Fair
    ELSE IF RLt(overpricing, Whole(25)) THEN SlightlyOverpriced
    ELSE overpriced_band(overpricing)

determine_price_verdict(listed, range, overpricing) ==
    IF listed < range.min THEN ExcellentValue
    ELSE IF listed <= range.max THEN Fair
    ELSE IF RLe(overpricing, Whole(25)) THEN SlightlyOverpriced
    ELSE overpriced_band(overpricing)

\* Mutation: a price of zero is analysed like any other price.
has_usable_price_zero_allowed(p) == p.price # None /\ p.price[1] >= 0

\* A price the engine can analyse: present and positive.
has_usable_price(p) == p.price # None /\ p.price[1] > 0

\* PricingEngine: a PriceAnalysis, or None ("no analysis") without a usable price.
analyze_price(p) ==
    IF ~has_usable_price(p) THEN None
    ELSE LET benchmark == benchmark_for(p.category)
             range == fair_range(fair_price(p.specs, benchmark), benchmark)
             market_average == market_average_of(range)
             listed == Money(p.price[1])
             overpricing == overpricing_of(listed, market_average)
         IN  Some([listed_price |-> listed,
                   fair_price_min |-> range.min,
                   fair_price_max |-> range.max,
                   market_average |-> market_average,
                   overpricing_percentage |-> overpricing,
                   verdict |-> determine_price_verdict(listed, range, overpricing)])

\* ---------------------------------------------------------- ScoringEngine

\* Mutation: the points of exaggerated and impossible are exchanged.
tier_points_swapped(status) ==
    IF status = Feasible THEN 100
    ELSE IF status = Exaggerated THEN 0
    ELSE 50

tier_points(status) ==
    IF status = Feasible THEN 100
    ELSE IF status = Exaggerated THEN 50
    ELSE 0

RECURSIVE weighted_points(_)
\* Sum of tier points x confidence.
weighted_points(vs) ==
    IF vs = <<>> THEN 0
    ELSE tier_points(Head(vs).status) * Head(vs).confidence + weighted_points(Tail(vs))

RECURSIVE total_weight(_)
\* Sum of the confidences.
total_weight(vs) ==
    IF vs = <<>> THEN 0 ELSE Head(vs).confidence + total_weight(Tail(vs))

\* A score clamped to [0, 100].
clamp_score(score) ==
    IF RLt(score, Whole(0)) THEN Whole(0)
    ELSE IF RLt(Whole(100), score) THEN Whole(100)
    ELSE score

\* The reality score without verifications: the neutral midpoint.
neutral_score == 50

\* Mutation: the plain average of the tier points, confidences ignored.
calculate_reality_score_unweighted(vs) ==
    IF vs = <<>> THEN Whole(neutral_score)
    ELSE clamp_score(Rat(weighted_points([i \in 1..Len(vs) |->
                                            [vs[i] EXCEPT !.confidence = 1]]), Len(vs)))

\* Mutation: the weighted points are divided by the number of verifications,
\* so the score is scaled by the average confidence.
calculate_reality_score_per_claim(vs) ==
    IF vs = <<>> THEN Whole(neutral_score)
    ELSE clamp_score(Rat(weighted_points(vs), 100 * Len(vs)))

calculate_reality_score(vs) ==
    IF vs = <<>> THEN Whole(neutral_score)
    ELSE clamp_score(Rat(weighted_points(vs), total_weight(vs)))

\* Mutation: overpriced and highly_overpriced share one score.
pricing_score_of_merged(verdict) ==
    IF verdict \in {ExcellentValue, Fair} THEN 100
    ELSE IF verdict = SlightlyOverpriced THEN 80
    ELSE 15

\* The pricing score of a price verdict.
pricing_score_of(verdict) ==
    IF verdict \in {ExcellentValue, Fair} THEN 100
    ELSE IF verdict = SlightlyOverpriced THEN 80
    ELSE IF verdict = Overpriced THEN 45
    ELSE 15

\* No pricing score without a price analysis.
calculate_pricing_score(pa) ==
    IF pa = None THEN None ELSE Some(pricing_score_of(pa[1].verdict))

has_impossible(vs) == \E i \in 1..Len(vs) : vs[i].status = Impossible

\* Mutation: the price branch is tried before the impossible-claim branch.
determine_overall_verdict_price_first(vs, reality_score, pa) ==
    IF pa # None /\ pa[1].verdict \in {Overpriced, HighlyOverpriced} THEN "overpriced"
    ELSE IF has_impossible(vs) THEN "not_recommended"
    ELSE IF RLt(reality_score, Whole(50)) THEN "misleading_claims"
    ELSE IF /\ RLe(Whole(80), reality_score)
            /\ pa # None
            /\ pa[1].verdict \in {ExcellentValue, Fair} THEN "good_value"
    ELSE "acceptable"

\* Strict priority order, first match wins.
determine_overall_verdict(vs, reality_score, pa) ==
    IF has_impossible(vs) THEN "not_recommended"
    ELSE IF RLt(reality_score, Whole(50)) THEN "misleading_claims"
    ELSE IF pa # None /\ pa[1].verdict \in {Overpriced, HighlyOverpriced} THEN "overpriced"
    ELSE IF /\ RLe(Whole(80), reality_score)
            /\ pa # None
            /\ pa[1].verdict \in {ExcellentValue, Fair} THEN "good_value"
    ELSE "acceptable"

\* A red flag: its kind and, for an impossible claim, the claim it is about.
Flag(kind, about) == [kind |-> kind, about |-> about]

RECURSIVE impossible_flags(_)
\* One flag per impossible verification, in verification order.
impossible_flags(vs) ==
    IF vs = <<>> THEN <<>>
    ELSE (IF Head(vs).status = Impossible
             THEN <<Flag("impossible_claim", Head(vs).claim)>>
             ELSE <<>>)
            \o impossible_flags(Tail(vs))

count_status(vs, status) == Cardinality({i \in DOMAIN vs : vs[i].status = status})

count_category(cs, category) == Cardinality({i \in DOMAIN cs : cs[i].category = category})

\* Mutation: the aggregate and buzzword flags need more than three.
generate_red_flags_more_than_three(cs, vs, pa) ==
    impossible_flags(vs)
        \o (IF count_status(vs, Exaggerated) > 3
                THEN <<Flag("multiple_exaggerated", "")>> ELSE <<>>)
        \o (IF pa # None /\ RLt(Whole(25), pa[1].overpricing_percentage)
                THEN <<Flag("overpriced", "")>> ELSE <<>>)
        \o (IF count_category(cs, "marketing_buzzword") > 3
                THEN <<Flag("marketing_buzzwords", "")>> ELSE <<>>)

\* Impossible-claim flags, then the aggregate flag, the pricing flag and the
\* buzzword flag.
generate_red_flags(cs, vs, pa) ==
    impossible_flags(vs)
        \o (IF count_status(vs, Exaggerated) >= 3
                THEN <<Flag("multiple_exaggerated", "")>> ELSE <<>>)
        \o (IF pa # None /\ RLt(Whole(25), pa[1].overpricing_percentage)
                THEN <<Flag("overpriced", "")>> ELSE <<>>)
        \o (IF count_category(cs, "marketing_buzzword") >= 3
                THEN <<Flag("marketing_buzzwords", "")>> ELSE <<>>)

\* A recommendation: its kind and, for "consider alternatives in $low-$high
\* range", the price range it quotes.
Recommendation(kind, low, high) == [kind |-> kind, low |-> low, high |-> high]

\* Mutation: the alternatives are always quoted as the $60-$120 of Example 1.
alternatives_canned(pa) ==
    IF pa = None THEN <<>>
    ELSE <<Recommendation("consider_alternatives", Some(Money(6000)), Some(Money(12000)))>>

\* "Consider alternatives in $low-$high range": the fair range of this price
\* analysis; nothing can be quoted without a price analysis.
alternatives_in_fair_range(pa) ==
    IF pa = None THEN <<>>
    ELSE <<Recommendation("consider_alternatives",
                          Some(pa[1].fair_price_min), Some(pa[1].fair_price_max))>>

\* One recommendation set per verdict. Example 1 (not_recommended): verify
\* claims, consider alternatives, avoid this product. Example 2 (good_value):
\* price is fair, product appears legitimate. The other verdicts have no
\* documented example: they advise verifying the claims and, for overpriced,
\* considering alternatives.
generate_recommendations(verdict, pa) ==
    IF verdict = "good_value"
        THEN << Recommendation("price_is_fair", None, None),
                Recommendation("appears_legitimate", None, None) >>
    ELSE IF verdict = "not_recommended"
        THEN <<Recommendation("verify_claims", None, None)>>
                \o alternatives_in_fair_range(pa)
                \o <<Recommendation("avoid_product", None, None)>>
    ELSE IF verdict = "overpriced"
        THEN <<Recommendation("verify_claims", None, None)>>
                \o alternatives_in_fair_range(pa)
    ELSE <<Recommendation("verify_claims", None, None)>>

\* What the summary sentence is assembled from: the verdict, the counts of
\* exaggerated and impossible claims and the direction of the price.
generate_summary(verdict, vs, pa) ==
    [verdict |-> verdict,
     exaggerated |-> count_status(vs, Exaggerated),
     impossible |-> count_status(vs, Impossible),
     pricing |-> IF pa = None THEN "unknown"
                 ELSE IF pa[1].verdict \in {ExcellentValue, Fair} THEN "fair_or_better"
                 ELSE "higher_than_justified"]

OverallVerdicts ==
    {"good_value", "acceptable", "overpriced", "misleading_claims", "not_recommended"}

\* ScoringEngine: the AnalysisResult of one run.
generate_analysis(cs, vs, pa) ==
    LET reality_score == calculate_reality_score(vs)
        overall_verdict == determine_overall_verdict(vs, reality_score, pa)
    IN  [claims_found |-> Len(cs),
         verifications |-> vs,
         price_analysis |-> pa,
         reality_score |-> reality_score,
         pricing_score |-> calculate_pricing_score(pa),
         overall_verdict |-> overall_verdict,
         summary |-> generate_summary(overall_verdict, vs, pa),
         red_flags |-> generate_red_flags(cs, vs, pa),
         recommendations |-> generate_recommendations(overall_verdict, pa)]

\* ------------------------------------------------------------ the inputs

\* Longest claim list the extractor hands over.
MaxClaims == 3

\* Claims the extractor produces.
ClaimPool ==
    { Claim("20000mAh", "battery_capacity", Some(Scaled(20000)), Some("mAh")),
      Claim("Charges...2 minutes", "charging_time", Some(Scaled(2)), Some("minutes")),
      Claim("150W output", "power_output", Some(Scaled(150)), Some("W")),
      Claim("100% efficiency", "efficiency", Some(Scaled(100)), Some("%")),
      Claim("Quantum", "marketing_buzzword", None, None),
      Claim("18W output", "power_output", Some(Scaled(18)), Some("W")),
      Claim("Charges in 90 minutes", "charging_time", Some(Scaled(90)), Some("minutes")),
      Claim("2x faster", "comparative", None, None),
      Claim("lifetime warranty", "warranty", None, None) }

RECURSIVE SeqsUpTo(_, _)
\* All sequences over S of length at most n.
SeqsUpTo(S, n) ==
    IF n = 0 THEN {<<>>}
    ELSE LET shorter == SeqsUpTo(S, n - 1)
         IN  shorter \cup {Append(s, x) : s \in {t \in shorter : Len(t) = n - 1}, x \in S}

\* The eight claims of the walkthrough's Example 1, in extraction order.
ScenarioAClaims ==
    << Claim("20000mAh", "battery_capacity", Some(Scaled(20000)), Some("mAh")),
       Claim("Charges...2 minutes", "charging_time", Some(Scaled(2)), Some("minutes")),
       Claim("150W output", "power_output", Some(Scaled(150)), Some("W")),
       Claim("100% efficiency", "efficiency", Some(Scaled(100)), Some("%")),
       Claim("Quantum", "marketing_buzzword", None, None),
       Claim("AI-powered", "marketing_buzzword", None, None),
       Claim("Military-grade", "marketing_buzzword", None, None),
       Claim("Medical-grade", "marketing_buzzword", None, None) >>

ClaimLists == SeqsUpTo(ClaimPool, MaxClaims) \cup {ScenarioAClaims}

\* Largest efficiency (%), charging time (minutes) and power output (W) of
\* the single-claim requests; every hundredth from 0 up to it is tried.
MaxEfficiency == 101

MaxMinutes == 31

MaxWatts == 151

\* Battery capacities are tried within this many hundredths of a mAh of each
\* tier boundary, and in steps of 2,500 mAh up to 105,000 mAh.
BoundaryMargin == 2

BatteryValues ==
    UNION {(Scaled(b) - BoundaryMargin)..(Scaled(b) + BoundaryMargin) :
                b \in {1000, 50000, 100000}}
        \cup {Scaled(2500 * k) : k \in 0..42}

NumericClaims ==
    {Claim("efficiency", "efficiency", Some(e), Some("%")) : e \in 0..Scaled(MaxEfficiency)}
        \cup {Claim("charging time", "charging_time", Some(t), Some("minutes")) :
                    t \in 0..Scaled(MaxMinutes)}
        \cup {Claim("power output", "power_output", Some(w), Some("W")) :
                    w \in 0..Scaled(MaxWatts)}
        \cup {Claim("battery capacity", "battery_capacity", Some(c), Some("mAh")) :
                    c \in BatteryValues}

\* Claims without a numeric value.
TextClaims ==
    {Claim(t, "marketing_buzzword", None, None) :
            t \in {"Quantum", "AI-powered", "Military-grade", "Medical-grade"}}
        \cup {Claim(t, "comparative", None, None) :
                    t \in {"2x faster", "best in market", "2x faster than the 2020 model"}}

\* Claims the rule tables cannot classify: an unsupported category, a value
\* the extractor could not parse, a unit no table knows, and a charging time
\* given in hours.
OddClaims ==
    { Claim("lifetime warranty", "warranty", None, None),
      Claim("IP68", "water_resistance", Some(Scaled(68)), Some("IP")),
      Claim("lots of mAh", "battery_capacity", None, Some("mAh")),
      Claim("ultra fast charging", "charging_time", None, None),
      Claim("20000 units", "battery_capacity", Some(Scaled(20000)), None),
      Claim("5 parsecs", "charging_time", Some(Scaled(5)), Some("parsecs")),
      Claim("150 dB output", "power_output", Some(Scaled(150)), Some("dB")),
      Claim("100 points efficiency", "efficiency", Some(Scaled(100)), Some("points")),
      Claim("charges in 1.5 hours", "charging_time", Some(Scaled(1) + 50), Some("hours")) }

SingleClaims == NumericClaims \cup TextClaims \cup OddClaims

\* Listings the scraper produces: category and spec sheet (battery in mAh,
\* power in W); "smart_gadget" is a category no benchmark table names.
Listings ==
    { [category |-> "power_bank", specs |-> [battery |-> 5000, power |-> 20]],
      [category |-> "power_bank", specs |-> [battery |-> 20000, power |-> 150]],
      [category |-> "smart_gadget", specs |-> [battery |-> 5000]] }

\* Listed prices in cents; None is a listing without a price.
Prices ==
    { None, Some(0), Some(9600), Some(11900), Some(14999),
      Some(15600), Some(15750), Some(18900), Some(19900) }

Products ==
    { [category |-> l.category, specs |-> l.specs, price |-> pr] :
        l \in Listings, pr \in Prices }

\* The product of the walkthrough's Example 1.
ScenarioA ==
    [category |-> "power_bank", specs |-> [battery |-> 20000, power |-> 150],
     price |-> Some(14999)]

\* ------------------------------------------------------- the state machine

\* ----------------------------------------- the frontend: what is rendered

\* Number.prototype.toFixed(0) of a non-negative score: the nearest integer,
\* halves rounded up.
toFixed0(score) == (2 * score.num + score.den) \div (2 * score.den)

\* ScoreIndicator.getDescription.
getDescription(score, type) ==
    IF type = "reality"
        THEN IF RLe(Whole(80), score) THEN "Highly credible"
             ELSE IF RLe(Whole(60), score) THEN "Some concerns"
             ELSE "Many red flags"
    ELSE IF RLe(Whole(80), score) THEN "Fair price"
         ELSE IF RLe(Whole(60), score) THEN "Slightly high"
         ELSE "Overpriced"

\* ScoreIndicator: score.toFixed(0) of a null or missing score is a TypeError.
ScoreIndicator(score, type) ==
    IF score = None
        THEN [threw |-> TRUE, shown |-> 0, description |-> ""]
    ELSE [threw |-> FALSE, shown |-> toFixed0(score[1]),
          description |-> getDescription(score[1], type)]

\* ResultCard's colour of the price difference.
price_difference_colour(overpricing_percentage) ==
    IF RLt(Whole(25), overpricing_percentage) THEN "text-danger"
    ELSE IF RLt(Whole(10), overpricing_percentage) THEN "text-warning"
    ELSE "text-success"

\* ResultCard: both score indicators are rendered for every analysis; the
\* price panel and the lists only when the analysis has them.
ResultCard(a) ==
    LET reality == ScoreIndicator(Some(a.reality_score), "reality")
        pricing == ScoreIndicator(IF a.pricing_score = None THEN None
                                  ELSE Some(Whole(a.pricing_score[1])), "pricing")
    IN  [threw |-> reality.threw \/ pricing.threw,
         verdict |-> a.overall_verdict,
         reality |-> reality,
         pricing |-> pricing,
         red_flags |-> Len(a.red_flags) > 0,
         price_panel |-> IF a.price_analysis = None THEN None
                         ELSE Some(price_difference_colour(
                                        a.price_analysis[1].overpricing_percentage)),
         verifications |-> Len(a.verifications) > 0,
         recommendations |-> Len(a.recommendations) > 0]

\* App's render: the spinner, the error panel, the results and the info
\* section; an error thrown while rendering takes the whole page down.
RenderApp(a, l, e) ==
    LET card == IF a # None /\ ~l THEN Some(ResultCard(a[1])) ELSE None
    IN  [crashed |-> card # None /\ card[1].threw,
         spinner |-> l,
         error_panel |-> e,
         results |-> card,
         info |-> a = None /\ ~l /\ e = None]

\* A handleAnalyze call that has not been made.
NoCall == [status |-> "unused", input |-> None, data |-> None, detail |-> None]

\* The handleAnalyze calls of one behaviour.
MaxCalls == 2

\* The product slot of a run that has not started.
NoProduct == [category |-> "power_bank", specs |-> [battery |-> 5000], price |-> None]

\* A request slot of the server that handles no request.
IdleRun ==
    [stage |-> "idle", claims |-> <<>>, product |-> NoProduct,
     verifications |-> <<>>, price_analysis |-> None, result |-> None]

\* The requests the server may be handling at the same time.
Runs == {"a", "b"}

Init ==
    /\ phase = "idle"
    /\ claims = <<>>
    /\ product = [category |-> "power_bank", specs |-> [battery |-> 5000], price |-> None]
    /\ verifications = <<>>
    /\ price_analysis = None
    /\ result = None
    /\ runs = [r \in Runs |-> IdleRun]
    /\ analysis = None
    /\ loading = FALSE
    /\ error = None
    /\ calls = [c \in 1..MaxCalls |-> NoCall]
    /\ started = 0
    /\ inputType = "text"
    /\ formText = ""
    /\ url = ""
    /\ view = RenderApp(None, FALSE, None)

\* One analysis run: the three engines on the extractor's and scraper's output.
Analyze(cs, p) ==
    /\ phase' = "done"
    /\ claims' = cs
    /\ product' = p
    /\ verifications' = verify_claims(cs)
    /\ price_analysis' = analyze_price(p)
    /\ result' = Some(generate_analysis(cs, verifications', price_analysis'))
    /\ UNCHANGED <<runs, appVars>>

\* The response is sent; the next request starts from nothing.
Respond ==
    /\ phase = "done"
    /\ phase' = "idle"
    /\ claims' = <<>>
    /\ product' = [category |-> "power_bank", specs |-> [battery |-> 5000], price |-> None]
    /\ verifications' = <<>>
    /\ price_analysis' = None
    /\ result' = None
    /\ UNCHANGED <<runs, appVars>>

\* A request arrives while no analysis is running.
Request ==
    /\ phase = "idle"
    /\ \E cs \in ClaimLists, p \in Products : Analyze(cs, p)

\* A request whose text holds a single claim, for the product of Example 1.
RequestSingle ==
    /\ phase = "idle"
    /\ \E c \in SingleClaims : Analyze(<<c>>, ScenarioA)

Next ==
    \/ Request
    \/ RequestSingle
    \/ Respond

Spec == Init /\ [][Next]_vars

\* The AnalysisResult the pipeline computes from its input alone.
PureResult(cs, p) == generate_analysis(cs, verify_claims(cs), analyze_price(p))

\* ------------------------------------- analysis runs handled concurrently

\* The inputs of the concurrent runs: no claim, one claim, or the eight claims
\* of Example 1, for a 5,000 mAh / 20 W listing and the product of Example 1.
RunClaimLists == {<<>>} \cup {<<c>> : c \in ClaimPool} \cup {ScenarioAClaims}

RunProducts ==
    {p \in Products : /\ p.category = "power_bank"
                      /\ p.specs = [battery |-> 5000, power |-> 20]
                      /\ p.price \in {None, Some(11900), Some(18900)}}
        \cup {ScenarioA}

\* Steps 1-2: the scraper and the extractor have produced the run's input.
StartRun(r) ==
    /\ runs[r].stage = "idle"
    /\ UNCHANGED <<pipelineVars, appVars>>
    /\ \E cs \in RunClaimLists, p \in RunProducts :
            runs' = [runs EXCEPT ![r] =
                        [IdleRun EXCEPT !.stage = "extracted", !.claims = cs, !.product = p]]

\* Step 3: the feasibility engine verifies the run's own claims.
VerifyStep(r) ==
    /\ runs[r].stage = "extracted"
    /\ UNCHANGED <<pipelineVars, appVars>>
    /\ runs' = [runs EXCEPT ![r].stage = "verified",
                            ![r].verifications = verify_claims(runs[r].claims)]

\* Step 4: the pricing engine analyses the run's own product.
PriceStep(r) ==
    /\ runs[r].stage = "verified"
    /\ UNCHANGED <<pipelineVars, appVars>>
    /\ runs' = [runs EXCEPT ![r].stage = "priced",
                            ![r].price_analysis = analyze_price(runs[r].product)]

\* Mutation: the verifications are kept in an attribute of the engine that
\* all requests share, so a run may score those of another run.
ScoreStep_shared_verifications(r) ==
    /\ runs[r].stage = "priced"
    /\ UNCHANGED <<pipelineVars, appVars>>
    /\ \E q \in Runs :
            /\ runs[q].stage \in {"verified", "priced"}
            /\ runs' = [runs EXCEPT ![r].stage = "done",
                                    ![r].result =
                                        Some(generate_analysis(runs[r].claims,
                                                               runs[q].verifications,
                                                               runs[r].price_analysis))]

\* Step 5: the scoring engine builds the AnalysisResult from the run's own
\* verifications and price analysis.
ScoreStep(r) ==
    /\ runs[r].stage = "priced"
    /\ UNCHANGED <<pipelineVars, appVars>>
    /\ runs' = [runs EXCEPT ![r].stage = "done",
                            ![r].result =
                                Some(generate_analysis(runs[r].claims,
                                                       runs[r].verifications,
                                                       runs[r].price_analysis))]

\* The JSON response is sent and the request is over.
FinishRun(r) ==
    /\ runs[r].stage = "done"
    /\ UNCHANGED <<pipelineVars, appVars>>
    /\ runs' = [runs EXCEPT ![r] = IdleRun]

NextRuns ==
    \E r \in Runs :
        \/ StartRun(r)
        \/ VerifyStep(r)
        \/ PriceStep(r)
        \/ ScoreStep(r)
        \/ FinishRun(r)

SpecRuns == Init /\ [][NextRuns]_vars

\* ------------------------------------------- the frontend: App, InputForm

serverVars == <<phase, claims, product, verifications, price_analysis, result, runs>>

\* The quick examples of InputForm, by name, and its demo URL.
exampleProducts == {"Quantum Battery Pack", "Realistic Power Bank"}

exampleUrls == {"https://example.com/product/realistic-powerbank"}

\* What the text area and the URL field may hold: nothing, blanks, an example.
TextValues == {"", " "} \cup exampleProducts

UrlValues == {"", " "} \cup exampleUrls

\* String.prototype.trim on these values.
trim(s) == IF s = " " THEN "" ELSE s

\* The response.data of a successful POST /analyze: the AnalysisResult of a
\* feasible or an impossible claim, with or without a price.
ResponseData ==
    {PureResult(<<c>>, p) :
        c \in {k \in ClaimPool : k.text \in {"18W output", "Charges...2 minutes"}},
        p \in RunProducts}

\* error.response?.data?.detail of a failed request: undefined when no
\* response arrived or it has no detail, else the server's string.
ErrorDetails == {None, Some(""), Some("Could not extract product information")}

\* Mutation: only a missing detail is replaced (?? instead of ||).
error_message_nullish(detail) ==
    IF detail = None THEN "Analysis failed" ELSE detail[1]

\* analyzeProduct's catch: new Error(detail || 'Analysis failed').message.
error_message(detail) ==
    IF detail = None \/ detail[1] = "" THEN "Analysis failed" ELSE detail[1]

\* App.handleAnalyze up to its await: loading on, error and analysis cleared,
\* the POST sent.
handleAnalyze(productInput) ==
    /\ started < MaxCalls
    /\ ~view.crashed
    /\ started' = started + 1
    /\ calls' = [calls EXCEPT ![started + 1] =
                    [status |-> "pending", input |-> Some(productInput),
                     data |-> None, detail |-> None]]
    /\ loading' = TRUE
    /\ error' = None
    /\ analysis' = None
    /\ view' = RenderApp(analysis', loading', error')

\* Mutation: the submit handler does not depend on the button being enabled.
handleSubmit_while_loading ==
    /\ IF inputType = "url" /\ trim(url) # ""
            THEN handleAnalyze([url |-> trim(url)])
        ELSE IF inputType = "text" /\ trim(formText) # ""
            THEN handleAnalyze([text |-> trim(formText)])
        ELSE UNCHANGED <<analysis, loading, error, calls, started, view>>
    /\ UNCHANGED <<formVars, serverVars>>

\* InputForm.handleSubmit: the form is submitted by its button, or by Enter
\* through that button, which is disabled while loading.
handleSubmit ==
    /\ ~loading
    /\ IF inputType = "url" /\ trim(url) # ""
            THEN handleAnalyze([url |-> trim(url)])
        ELSE IF inputType = "text" /\ trim(formText) # ""
            THEN handleAnalyze([text |-> trim(formText)])
        ELSE UNCHANGED <<analysis, loading, error, calls, started, view>>
    /\ UNCHANGED <<formVars, serverVars>>

\* The user switches between text and URL input.
setInputType(type) ==
    /\ ~view.crashed
    /\ inputType' = type
    /\ UNCHANGED <<formText, url, analysis, loading, error, calls, started, view, serverVars>>

\* The user edits the text area (onChange).
setText(value) ==
    /\ ~view.crashed
    /\ inputType = "text"
    /\ formText' = value
    /\ UNCHANGED <<inputType, url, analysis, loading, error, calls, started, view, serverVars>>

\* The user edits the URL field (onChange).
setUrl(value) ==
    /\ ~view.crashed
    /\ inputType = "url"
    /\ url' = value
    /\ UNCHANGED <<inputType, formText, analysis, loading, error, calls, started, view, serverVars>>

\* An example button: it fills the text area and starts nothing.
loadExample(example) ==
    /\ ~view.crashed
    /\ inputType = "text"
    /\ inputType' = "text"
    /\ formText' = example
    /\ UNCHANGED <<url, analysis, loading, error, calls, started, view, serverVars>>

\* A demo URL button: it fills the URL field and starts nothing.
loadExampleUrl(example) ==
    /\ ~view.crashed
    /\ inputType = "url"
    /\ inputType' = "url"
    /\ url' = example
    /\ UNCHANGED <<formText, analysis, loading, error, calls, started, view, serverVars>>

\* The POST of call c succeeds: analyzeProduct returns response.data,
\* handleAnalyze sets analysis and, in its finally, loading off.
Succeed(c) ==
    /\ calls[c].status = "pending"
    /\ ~view.crashed
    /\ \E data \in ResponseData :
            /\ calls' = [calls EXCEPT ![c].status = "succeeded", ![c].data = Some(data)]
            /\ analysis' = Some(data)
    /\ loading' = FALSE
    /\ view' = RenderApp(analysis', loading', error)
    /\ UNCHANGED <<error, started, formVars, serverVars>>

\* Mutation: loading is turned off in the try block only, not in a finally.
Fail_without_finally(c) ==
    /\ calls[c].status = "pending"
    /\ ~view.crashed
    /\ \E detail \in ErrorDetails :
            /\ calls' = [calls EXCEPT ![c].status = "failed", ![c].detail = detail]
            /\ error' = Some(error_message(detail))
    /\ view' = RenderApp(analysis, loading, error')
    /\ UNCHANGED <<loading, analysis, started, formVars, serverVars>>

\* The POST of call c fails: analyzeProduct throws, handleAnalyze sets error
\* and, in its finally, loading off.
Fail(c) ==
    /\ calls[c].status = "pending"
    /\ ~view.crashed
    /\ \E detail \in ErrorDetails :
            /\ calls' = [calls EXCEPT ![c].status = "failed", ![c].detail = detail]
            /\ error' = Some(error_message(detail))
    /\ loading' = FALSE
    /\ view' = RenderApp(analysis, loading', error')
    /\ UNCHANGED <<analysis, started, formVars, serverVars>>

\* App with InputForm: every handleAnalyze comes from the form.
NextUI ==
    \/ handleSubmit
    \/ \E type \in {"text", "url"} : setInputType(type)
    \/ \E value \in TextValues : setText(value)
    \/ \E value \in UrlValues : setUrl(value)
    \/ \E example \in exampleProducts : loadExample(example)
    \/ \E example \in exampleUrls : loadExampleUrl(example)
    \/ \E c \in 1..MaxCalls : Succeed(c)
    \/ \E c \in 1..MaxCalls : Fail(c)

SpecUI == Init /\ [][NextUI]_vars

\* Every HTTP request settles, as a success or as a failure.
Settle(c) == Succeed(c) \/ Fail(c)

SpecUIFair == SpecUI /\ \A c \in 1..MaxCalls : WF_vars(Settle(c))

\* App by itself: whoever holds the onAnalyze prop may call it at any time.
onAnalyze ==
    /\ \E productInput \in {[text |-> t] : t \in exampleProducts}
                            \cup {[url |-> u] : u \in exampleUrls} :
            handleAnalyze(productInput)
    /\ UNCHANGED <<formVars, serverVars>>

NextApp ==
    \/ onAnalyze
    \/ \E c \in 1..MaxCalls : Succeed(c)
    \/ \E c \in 1..MaxCalls : Fail(c)

SpecApp == Init /\ [][NextApp]_vars

\* ---------------------------------------------------------------- claims

RECURSIVE ConfidenceSum(_, _)
\* Sum of the confidences of the verifications whose status is in statuses.
ConfidenceSum(vs, statuses) ==
    IF vs = <<>> THEN 0
    ELSE (IF Head(vs).status \in statuses THEN Head(vs).confidence ELSE 0)
            + ConfidenceSum(Tail(vs), statuses)

\* worse is a strictly worse tier than status.
StrictlyWorse(worse, status) ==
    \/ status = Feasible /\ worse \in {Exaggerated, Impossible}
    \/ status = Exaggerated /\ worse = Impossible

\* C1: the overall verdict follows the strict first-match priority: an
\* impossible verification gives not_recommended; otherwise reality_score < 50
\* gives misleading_claims; otherwise a price verdict overpriced or
\* highly_overpriced gives overpriced; otherwise reality_score >= 80 with a
\* price verdict excellent_value or fair gives good_value; otherwise acceptable.
C1_VerdictPriority ==
    phase = "done" =>
        LET r == result[1]
            vs == r.verifications
            pa == r.price_analysis
            score == r.reality_score
            impossible == \E i \in DOMAIN vs : vs[i].status = "impossible"
            low == score.num < 50 * score.den
            high == score.num >= 80 * score.den
            over == pa # None /\ pa[1].verdict \in {"overpriced", "highly_overpriced"}
            good == pa # None /\ pa[1].verdict \in {"excellent_value", "fair"}
        IN  /\ impossible => r.overall_verdict = "not_recommended"
            /\ ~impossible /\ low => r.overall_verdict = "misleading_claims"
            /\ ~impossible /\ ~low /\ over => r.overall_verdict = "overpriced"
            /\ ~impossible /\ ~low /\ ~over /\ high /\ good
                    => r.overall_verdict = "good_value"
            /\ ~impossible /\ ~low /\ ~over /\ ~(high /\ good)
                    => r.overall_verdict = "acceptable"

\* C1 witness: an impossible verification beside a reality score of at least
\* 50 and an overpriced listing; the first branch decides.
C1_Witness ==
    /\ phase = "done"
    /\ \E i \in DOMAIN verifications : verifications[i].status = "impossible"
    /\ result[1].reality_score.num >= 50 * result[1].reality_score.den
    /\ price_analysis # None
    /\ price_analysis[1].verdict = "overpriced"
    /\ result[1].overall_verdict = "not_recommended"

C3_Monotone ==
    phase = "done" =>
        \A i \in DOMAIN verifications : \A worse \in VerificationStatus :
            StrictlyWorse(worse, verifications[i].status) =>
                RLe(calculate_reality_score([verifications EXCEPT ![i].status = worse]),
                    result[1].reality_score)

\* C3 witness: a worse tier for one of several verifications lowers the score.
C3_Witness ==
    /\ phase = "done"
    /\ Len(verifications) >= 2
    /\ \E i \in DOMAIN verifications :
            /\ verifications[i].status = "exaggerated"
            /\ RLt(calculate_reality_score([verifications EXCEPT ![i].status = "impossible"]),
                   result[1].reality_score)

\* C4: the result holds one verification per claim, the i-th verification
\* being that of the i-th claim, claims the engine cannot classify included.
C4_OnePerClaim ==
    phase = "done" =>
        LET vs == result[1].verifications
        IN  /\ Len(vs) = Len(claims)
            /\ result[1].claims_found = Len(claims)
            /\ \A i \in 1..Len(claims) :
                    /\ vs[i].claim = claims[i].text
                    /\ vs[i] = verify_claim(claims[i])

\* C4 witness: an unclassifiable claim between two classifiable, different ones.
C4_Witness ==
    /\ phase = "done"
    /\ Len(claims) = 3
    /\ claims[2].category = "warranty"
    /\ claims[1].text # claims[3].text
    /\ result[1].verifications[2].claim = "lifetime warranty"

\* C5: every verification has confidence in [0, 1] and a status among
\* feasible, exaggerated, impossible; reality_score is in [0, 100]; and
\* pricing_score, when present, is in [0, 100].
C5_Ranges ==
    phase = "done" =>
        LET r == result[1]
        IN  /\ \A i \in DOMAIN r.verifications :
                    /\ r.verifications[i].confidence \in 0..100
                    /\ r.verifications[i].status \in {"feasible", "exaggerated", "impossible"}
            /\ r.reality_score.den > 0
            /\ 0 <= r.reality_score.num
            /\ r.reality_score.num <= 100 * r.reality_score.den
            /\ r.pricing_score # None => r.pricing_score[1] \in 0..100

\* C5 witness: a result with three verifications and a pricing score.
C5_Witness ==
    /\ phase = "done"
    /\ Len(result[1].verifications) = 3
    /\ \E i \in DOMAIN verifications : verifications[i].confidence = 100
    /\ result[1].pricing_score # None

\* C6: without a price, or with a non-positive one, there is no price
\* analysis and no pricing score; reality_score is what the same claims get
\* with any price; and the verdict is not_recommended, misleading_claims or
\* acceptable.
C6_MissingPrice ==
    phase = "done" /\ (product.price = None \/ product.price[1] <= 0) =>
        LET r == result[1]
        IN  /\ price_analysis = None
            /\ r.price_analysis = None
            /\ r.pricing_score = None
            /\ \A q \in Products :
                    (q.price # None /\ q.price[1] > 0) =>
                        LET vs == verify_claims(claims)
                        IN  generate_analysis(claims, vs, analyze_price(q)).reality_score
                                = r.reality_score
            /\ r.overall_verdict \in {"not_recommended", "misleading_claims", "acceptable"}

\* C6 witness: credible claims and a price of zero, so only the missing
\* price keeps the verdict from good_value.
C6_Witness ==
    /\ phase = "done"
    /\ product.price = Some(0)
    /\ claims # <<>>
    /\ result[1].reality_score.num >= 80 * result[1].reality_score.den
    /\ result[1].overall_verdict = "acceptable"

\* The verdict the bands of the signed overpricing_percentage give when each
\* band is closed on its lower bound: below 0, 0 to 10, 10 to 25, 25 to 50,
\* 50 and above.
BandVerdict(overpricing) ==
    IF overpricing.num < 0 THEN "excellent_value"
    ELSE IF overpricing.num < 10 * overpricing.den THEN "fair"
    ELSE IF overpricing.num < 25 * overpricing.den THEN "slightly_overpriced"
    ELSE IF overpricing.num < 50 * overpricing.den THEN "overpriced"
    ELSE "highly_overpriced"

DocumentedBand(verdict) ==
    IF verdict \in {"excellent_value", "fair"} THEN 90..100
    ELSE IF verdict = "slightly_overpriced" THEN 60..79
    ELSE IF verdict = "overpriced" THEN 30..59
    ELSE 0..29

C10_ScenarioAPricing ==
    phase = "done" /\ product = ScenarioA =>
        /\ price_analysis # None
        /\ price_analysis[1].verdict = "highly_overpriced"
        /\ result[1].pricing_score = Some(15)

\* C11: for the eight claims of Scenario A at least two verifications are
\* impossible (the 2-minute charge and the 100 % efficiency), the overall
\* verdict is not_recommended and reality_score lies in [33, 43], whatever
\* confidences of the 75-90 % band the four buzzwords carry.
C11_ScenarioAScoring ==
    phase = "done" /\ claims = ScenarioAClaims =>
        LET r == result[1]
            vs == r.verifications
            score == r.reality_score
        IN  /\ Len(vs) = 8
            /\ Cardinality({i \in DOMAIN vs : vs[i].status = "impossible"}) >= 2
            /\ vs[2].status = "impossible"
            /\ vs[4].status = "impossible"
            /\ r.overall_verdict = "not_recommended"
            /\ 33 * score.den <= score.num
            /\ score.num <= 43 * score.den
            /\ \A band \in [5..8 -> {75, 80, 85, 90}] :
                    LET ws == [i \in 1..8 |->
                                IF i >= 5 THEN [vs[i] EXCEPT !.confidence = band[i]]
                                ELSE vs[i]]
                        other == calculate_reality_score(ws)
                    IN  33 * other.den <= other.num /\ other.num <= 43 * other.den

\* C11 witness: Scenario A analysed, claims and product.
C11_Witness ==
    /\ phase = "done"
    /\ claims = ScenarioAClaims
    /\ product = ScenarioA
    /\ result[1].claims_found = 8
    /\ result[1].overall_verdict = "not_recommended"

Stated(i, category, unit) ==
    /\ claims[i].category = category
    /\ claims[i].value # None
    /\ claims[i].unit = Some(unit)

\* The value (hundredths) and the tier of the i-th claim of the request.
ValueOf(i) == claims[i].value[1]

StatusOf(i) == result[1].verifications[i].status

C15_ChargingTiers ==
    phase = "done" =>
        \A i \in DOMAIN claims :
            Stated(i, "charging_time", "minutes") =>
                LET t == ValueOf(i)
                IN  /\ t < 500 => StatusOf(i) = "impossible"
                    /\ (500 <= t /\ t < 1500) => StatusOf(i) = "exaggerated"
                    /\ t >= 1500 => StatusOf(i) = "feasible"

\* C15 witness: a charging time of exactly 15 minutes has been classified feasible.
C15_Witness ==
    /\ phase = "done"
    /\ Len(claims) = 1
    /\ Stated(1, "charging_time", "minutes")
    /\ ValueOf(1) = 1500
    /\ StatusOf(1) = "feasible"

ConfidenceOf(i) == result[1].verifications[i].confidence

C17_BoundaryTiers ==
    phase = "done" =>
        \A i \in DOMAIN claims :
            /\ Stated(i, "battery_capacity", "mAh") =>
                    /\ ValueOf(i) = 10000000 => StatusOf(i) = "exaggerated"
                    /\ ValueOf(i) = 5000000 => StatusOf(i) = "feasible"
                    /\ ValueOf(i) = 100000 => StatusOf(i) = "feasible"
            /\ Stated(i, "charging_time", "minutes") =>
                    /\ ValueOf(i) = 500 => StatusOf(i) = "exaggerated"
                    /\ ValueOf(i) = 1500 => StatusOf(i) = "feasible"
            /\ Stated(i, "power_output", "W") =>
                    /\ ValueOf(i) = 15000 => StatusOf(i) = "exaggerated"
                    /\ ValueOf(i) = 10000 => StatusOf(i) = "feasible"
            /\ Stated(i, "efficiency", "%") =>
                    /\ ValueOf(i) = 10000 => StatusOf(i) = "impossible"
                    /\ ValueOf(i) = 9800 => StatusOf(i) = "exaggerated"
                    /\ ValueOf(i) = 9500 => StatusOf(i) = "feasible"
                    /\ ValueOf(i) = 7000 => StatusOf(i) = "feasible"

\* C17 as stated: a battery capacity of exactly 100,000 mAh is impossible and
\* a charging time of exactly 15 minutes is feasible.
C17_StricterTier ==
    phase = "done" =>
        \A i \in DOMAIN claims :
            /\ (Stated(i, "battery_capacity", "mAh") /\ ValueOf(i) = 10000000)
                    => StatusOf(i) = "impossible"
            /\ (Stated(i, "charging_time", "minutes") /\ ValueOf(i) = 1500)
                    => StatusOf(i) = "feasible"

\* C17 witness: a capacity of exactly 100,000 mAh has been classified
\* exaggerated.
C17_Witness ==
    /\ phase = "done"
    /\ Len(claims) = 1
    /\ Stated(1, "battery_capacity", "mAh")
    /\ ValueOf(1) = 10000000
    /\ StatusOf(1) = "exaggerated"

\* C18: a power output p > 150 W is impossible, 100 < p <= 150 exaggerated,
\* p <= 100 feasible; so exactly 150 W is exaggerated and exactly 100 W feasible.
C18_PowerTiers ==
    phase = "done" =>
        \A i \in DOMAIN claims :
            Stated(i, "power_output", "W") =>
                LET p == ValueOf(i)
                IN  /\ p > 15000 => StatusOf(i) = "impossible"
                    /\ (10000 < p /\ p <= 15000) => StatusOf(i) = "exaggerated"
                    /\ p <= 10000 => StatusOf(i) = "feasible"

\* C18 witness: a power output of exactly 150 W, alone in its request, has
\* been classified exaggerated.
C18_Witness ==
    /\ phase = "done"
    /\ Len(claims) = 1
    /\ Stated(1, "power_output", "W")
    /\ ValueOf(1) = 15000
    /\ StatusOf(1) = "exaggerated"

\* C19: a claim without a numeric value is never feasible or impossible; a
\* marketing buzzword is exaggerated with confidence in [0.75, 0.90]; a
\* comparative is exaggerated with or without a named baseline, and the
\* baseline only lowers the confidence.
C19_TextClaims ==
    phase = "done" =>
        \A i \in DOMAIN claims :
            /\ claims[i].value = None => StatusOf(i) = "exaggerated"
            /\ claims[i].category = "marketing_buzzword" =>
                    /\ StatusOf(i) = "exaggerated"
                    /\ 75 <= ConfidenceOf(i) /\ ConfidenceOf(i) <= 90
            /\ claims[i].category = "comparative" =>
                    /\ StatusOf(i) = "exaggerated"
                    /\ claims[i].text = "2x faster than the 2020 model" =>
                            ConfidenceOf(i) <
                                verify_claim(Claim("2x faster", "comparative",
                                                   None, None)).confidence

\* C19 witness: a comparative that names its baseline has been classified
\* exaggerated.
C19_Witness ==
    /\ phase = "done"
    /\ Len(claims) = 1
    /\ claims[1].category = "comparative"
    /\ claims[1].text = "2x faster than the 2020 model"
    /\ StatusOf(1) = "exaggerated"

\* The units in which the extractor states each numeric category.
KnownUnits ==
    [battery_capacity |-> {"mAh"}, charging_time |-> {"minutes", "hours"},
     power_output |-> {"W"}, efficiency |-> {"%"}]

ReferenceResults == {PureResult(cs, p) : cs \in RunClaimLists, p \in RunProducts}

FairRangeOf(r) ==
    IF r.price_analysis = None THEN None
    ELSE Some(<<r.price_analysis[1].fair_price_min, r.price_analysis[1].fair_price_max>>)

KindsOf(r) == [k \in DOMAIN r.recommendations |-> r.recommendations[k].kind]

AllFeasible(r) ==
    /\ Len(r.verifications) >= 1
    /\ \A i \in DOMAIN r.verifications : r.verifications[i].status = "feasible"

PricingFlagged(r) == \E k \in DOMAIN r.red_flags : r.red_flags[k].kind = "overpriced"

Pending == {c \in 1..MaxCalls : calls[c].status = "pending"}

\* C24: once the one handleAnalyze call has settled, loading is false and
\* exactly one of analysis and error is set: analysis is the response data
\* after a success, error is a non-empty message (the server's detail, or
\* "Analysis failed") after a failure.
C24_HandleAnalyzeOutcome ==
    (started >= 1 /\ calls[started].status \in {"succeeded", "failed"}) =>
        LET call == calls[started]
        IN  /\ ~loading
            /\ (analysis = None) # (error = None)
            /\ call.status = "succeeded" =>
                    /\ analysis = call.data
                    /\ error = None
            /\ call.status = "failed" =>
                    /\ analysis = None
                    /\ error # None
                    /\ error[1] # ""
                    /\ \/ error[1] = "Analysis failed"
                       \/ call.detail = Some(error[1])

\* C24 witness: a request failed with an empty detail and the error panel
\* shows "Analysis failed".
C24_Witness ==
    /\ started = 1
    /\ calls[1].status = "failed"
    /\ calls[1].detail = Some("")
    /\ error = Some("Analysis failed")
    /\ ~loading

\* C25: loading is true exactly while an analyze request is in flight, and
\* at most one request is in flight.
C25_OneRequestInFlight ==
    /\ loading <=> Pending # {}
    /\ Cardinality(Pending) <= 1

\* C25 witness: the second request of the session is in flight after the
\* first one settled, and the user has filled the form meanwhile.
C25_Witness ==
    /\ started = 2
    /\ calls[1].status = "succeeded"
    /\ calls[2].status = "pending"
    /\ loading
    /\ formText \in exampleProducts

C27_LoadingEnds ==
    /\ loading ~> ~loading
    /\ [](Pending = {} => ~loading)

\* C27 witness: the request has failed and loading is off again.
C27_Witness ==
    /\ started = 1
    /\ calls[1].status = "failed"
    /\ error # None
    /\ ~loading

\* C28 as stated: ResultCard renders every AnalysisResult without raising
\* an error.
C28_RendersEveryResult == ~view.crashed

C30_IndicatorAgrees ==
    (phase = "done" /\ result[1].price_analysis # None) =>
        LET shown == ResultCard(result[1]).pricing.description
            verdict == result[1].price_analysis[1].verdict
        IN  /\ shown = "Fair price" => verdict \in {"excellent_value", "fair"}
            /\ shown = "Slightly high" => verdict = "slightly_overpriced"
            /\ shown = "Overpriced" => verdict \in {"overpriced", "highly_overpriced"}

====
